---- MODULE Spec2Model ----
(***************************************************************************)
(* Model of the bot relay of src/index.js and src/indes.js:                *)
(*   - the paginator split_for_pdf and the chunked translator              *)
(*     translate_chunked (pure string algorithms, src/index.js:154-243);   *)
(*   - the request handlers: the PPT document handler of both bot          *)
(*     variants, handle_pdf with build_translated_pdf, handle_image and    *)
(*     handle_text.                                                        *)
(* A string is a sequence of one-character strings.                        *)
(***************************************************************************)
EXTENDS Integers, Sequences, FiniteSets, TLC

\* ------------------------------------------------------------- bounds
\* longest input string drawn for split_for_pdf
MaxLen == 4
\* largest max_chars drawn for split_for_pdf
MaxCap == 3
\* longest input string drawn for translate_chunked
MaxTcLen == 6
\* largest max_chunk_chars drawn for translate_chunked
MaxChunk == 3

\* ------------------------------------------------------ program constants
\* translate_chunked's default max_chunk_chars
DEFAULT_MAX_CHUNK_CHARS == 3500
\* max_chars build_translated_pdf passes to split_for_pdf
PDF_MAX_CHARS == 2600
\* longest translation handle_image sends as a text reply
IMAGE_TEXT_LIMIT == 3500

\* ------------------------------------------------------------ strings
Alphabet == {"a", "b", " ", "\n"}

Strings(n) == UNION {[1..k -> Alphabet] : k \in 0..n}

\* the characters of the texts drawn for translate_chunked
TcAlphabet == {"a", " ", "\n"}

TcStrings(n) == UNION {[1..k -> TcAlphabet] : k \in 0..n}

\* str.isspace() on the characters of the model
IsSpace(c) == c \in {" ", "\n", "\t", "\r"}

RECURSIVE FirstNonSpace(_, _)
FirstNonSpace(s, i) ==
    IF i > Len(s) THEN i
    ELSE IF IsSpace(s[i]) THEN FirstNonSpace(s, i + 1) ELSE i

RECURSIVE LastNonSpace(_, _)
LastNonSpace(s, i) ==
    IF i < 1 THEN i
    ELSE IF IsSpace(s[i]) THEN LastNonSpace(s, i - 1) ELSE i

\* str.strip()
Strip(s) ==
    LET lo == FirstNonSpace(s, 1)
        hi == LastNonSpace(s, Len(s))
    IN  IF lo > hi THEN <<>> ELSE SubSeq(s, lo, hi)

SetMin(S) == CHOOSE x \in S : \A y \in S : x <= y

RECURSIVE SplitFrom(_, _, _)
SplitFrom(s, from, nl) ==
    LET rest == {i \in nl : i >= from}
    IN  IF rest = {} THEN <<SubSeq(s, from, Len(s))>>
        ELSE LET k == SetMin(rest)
             IN  <<SubSeq(s, from, k - 1)>> \o SplitFrom(s, k + 1, nl)

\* str.split("\n")
SplitNewline(s) == SplitFrom(s, 1, {i \in 1..Len(s) : s[i] = "\n"})

\* str.splitlines(): no line for an empty string, none after a final newline
SplitLines(s) ==
    IF s = <<>> THEN <<>>
    ELSE LET parts == SplitNewline(s)
         IN  IF s[Len(s)] = "\n" THEN SubSeq(parts, 1, Len(parts) - 1) ELSE parts

RECURSIVE Join(_, _)
\* sep.join(seq)
Join(seq, sep) ==
    IF seq = <<>> THEN <<>>
    ELSE IF Len(seq) = 1 THEN seq[1]
    ELSE seq[1] \o sep \o Join(Tail(seq), sep)

RECURSIVE Concat(_)
Concat(seq) == IF seq = <<>> THEN <<>> ELSE seq[1] \o Concat(Tail(seq))

\* ------------------------------------------------------ split_for_pdf
\* the final "if buf.strip(): pages.append(buf.strip())" left out
SplitFlush_NoFinal(pages, buf) == pages

\* lines 240-243
SplitFlush(pages, buf) ==
    IF Strip(buf) # <<>> THEN Append(pages, Strip(buf)) ELSE pages

RECURSIVE SplitLoop(_, _, _, _)
\* lines 233-238, then the flush
SplitLoop(lines, pages, buf, max_chars) ==
    IF lines = <<>> THEN SplitFlush(pages, buf)
    ELSE LET line == Head(lines)
         IN  IF Len(buf) + Len(line) + 1 <= max_chars
             THEN SplitLoop(Tail(lines), pages, buf \o line \o <<"\n">>, max_chars)
             ELSE SplitLoop(Tail(lines), Append(pages, Strip(buf)),
                            line \o <<"\n">>, max_chars)

split_for_pdf(text, max_chars) ==
    LET t == Strip(text)
    IN  IF Len(t) <= max_chars
        THEN (IF t # <<>> THEN <<t>> ELSE << <<>> >>)
        ELSE SplitLoop(SplitLines(t), <<>>, <<>>, max_chars)

\* -------------------------------------------------- translate_chunked
RECURSIVE HardSplit(_, _, _)
\* lines 178-179: p[i : i + max_chunk_chars] for i in range(0, len(p), max)
HardSplit(p, i, max_chunk_chars) ==
    IF i > Len(p) THEN <<>>
    ELSE <<SubSeq(p, i, IF i + max_chunk_chars - 1 < Len(p)
                        THEN i + max_chunk_chars - 1 ELSE Len(p))>>
         \o HardSplit(p, i + max_chunk_chars, max_chunk_chars)

RECURSIVE StripAll(_)
StripAll(seq) == IF seq = <<>> THEN <<>> ELSE <<Strip(seq[1])>> \o StripAll(Tail(seq))

\* line 164: [p.strip() for p in text.split("\n") if p.strip()]
Paragraphs(text) == SelectSeq(StripAll(SplitNewline(text)), LAMBDA p : p # <<>>)

\* "if buf:" left out: the buffer is flushed also when it is empty
FlushBuf_Always(chunks, buf) == Append(chunks, buf)

\* lines 172-173 and 182-183
FlushBuf(chunks, buf) == IF buf # <<>> THEN Append(chunks, buf) ELSE chunks

\* the separator's "+ 1" left out of the test
PackFits_NoSeparator(buf, p, max_chunk_chars) ==
    Len(buf) + Len(p) <= max_chunk_chars

\* line 169
PackFits(buf, p, max_chunk_chars) ==
    Len(buf) + Len(p) + 1 <= max_chunk_chars

RECURSIVE PackLoop(_, _, _, _)
\* lines 168-183
PackLoop(parts, chunks, buf, max_chunk_chars) ==
    IF parts = <<>> THEN FlushBuf(chunks, buf)
    ELSE LET p == Head(parts)
         IN  IF PackFits(buf, p, max_chunk_chars)
             THEN PackLoop(Tail(parts), chunks, Strip(buf \o <<"\n">> \o p),
                           max_chunk_chars)
             ELSE IF Len(p) <= max_chunk_chars
                  THEN PackLoop(Tail(parts), FlushBuf(chunks, buf), p, max_chunk_chars)
                  ELSE PackLoop(Tail(parts),
                                FlushBuf(chunks, buf) \o HardSplit(p, 1, max_chunk_chars),
                                <<>>, max_chunk_chars)

\* the chunks translate_chunked builds from the trimmed, non-empty text
MakeChunks(text, max_chunk_chars) ==
    PackLoop(Paragraphs(text), <<>>, <<>>, max_chunk_chars)

\* lines 188: "\n\n".join(translated).strip()
JoinTranslated(translated) == Strip(Join(translated, <<"\n", "\n">>))

\* -------------------------------------------------------------- state
VARIABLES
    sp_text, sp_max, sp_pages, sp_pc,
    tc_text, tc_max, tc_pc, tc_chunks, tc_translated, tc_calls, tc_resp,
    tc_failures, tc_result,
    kind, variant, input, pc, log, escaped, thrown,
    english, arabic,
    pdf_i, pdf_out, pdf_chunks, pdf_j, pdf_ks, pdf_saved, pdf_failed_at

splitVars == <<sp_text, sp_max, sp_pages, sp_pc>>
tcVars == <<tc_text, tc_max, tc_pc, tc_chunks, tc_translated, tc_calls, tc_resp,
            tc_failures, tc_result>>
reqVars == <<kind, variant, input>>
pdfVars == <<pdf_i, pdf_out, pdf_chunks, pdf_j, pdf_ks, pdf_saved, pdf_failed_at>>
botVars == <<reqVars, pc, log, escaped, thrown, english, arabic, pdfVars>>
vars == <<splitVars, tcVars, botVars>>

SplitIdle ==
    /\ sp_text = <<>> /\ sp_max = 1 /\ sp_pages = <<>> /\ sp_pc = "idle"

TcIdle ==
    /\ tc_text = <<>> /\ tc_max = 1 /\ tc_pc = "idle" /\ tc_chunks = <<>>
    /\ tc_translated = <<>> /\ tc_calls = <<>> /\ tc_resp = <<>>
    /\ tc_failures = 0 /\ tc_result = <<>>

BotIdle ==
    /\ kind = "none" /\ variant = "none" /\ input = <<>> /\ pc = "idle"
    /\ log = <<>> /\ escaped = FALSE /\ thrown = FALSE
    /\ english = <<>> /\ arabic = <<>>
    /\ pdf_i = 0 /\ pdf_out = <<>> /\ pdf_chunks = <<>> /\ pdf_j = 0
    /\ pdf_ks = <<>> /\ pdf_saved = FALSE /\ pdf_failed_at = "none"

\* ------------------------------------------- specification: paginator
InitSplit ==
    /\ sp_text \in Strings(MaxLen)
    /\ sp_max \in 1..MaxCap
    /\ sp_pages = <<>>
    /\ sp_pc = "call"
    /\ TcIdle
    /\ BotIdle

SplitForPdf ==
    /\ sp_pc = "call"
    /\ sp_pages' = split_for_pdf(sp_text, sp_max)
    /\ sp_pc' = "done"
    /\ UNCHANGED <<sp_text, sp_max, tcVars, botVars>>

NextSplit == SplitForPdf

SpecSplit == InitSplit /\ [][NextSplit]_vars

\* ------------------------------------------ specification: translator
\* what the translation service may answer
TranslatorOutputs == {<<"x">>, <<"y", " ">>}

InitTranslate ==
    /\ tc_text \in TcStrings(MaxTcLen)
    /\ tc_max \in 1..MaxChunk
    /\ tc_pc = "start"
    /\ tc_chunks = <<>> /\ tc_translated = <<>> /\ tc_calls = <<>>
    /\ tc_resp = <<>> /\ tc_failures = 0 /\ tc_result = <<>>
    /\ SplitIdle
    /\ BotIdle

\* lines 159-183: trim, return "" at once for an empty text, else build the chunks
TcStart ==
    /\ tc_pc = "start"
    /\ IF Strip(tc_text) = <<>>
       THEN /\ tc_result' = << <<>> >>
            /\ tc_pc' = "done"
            /\ UNCHANGED tc_chunks
       ELSE /\ tc_chunks' = MakeChunks(Strip(tc_text), tc_max)
            /\ tc_pc' = "loop"
            /\ UNCHANGED tc_result
    /\ UNCHANGED <<tc_text, tc_max, tc_translated, tc_calls, tc_resp, tc_failures,
                   splitVars, botVars>>

\* line 187: translator.translate(c) is issued for the next chunk
TcCall ==
    /\ tc_pc = "loop"
    /\ Len(tc_translated) < Len(tc_chunks)
    /\ tc_calls' = Append(tc_calls, tc_chunks[Len(tc_translated) + 1])
    /\ tc_pc' = "wait"
    /\ UNCHANGED <<tc_text, tc_max, tc_chunks, tc_translated, tc_resp, tc_failures,
                   tc_result, splitVars, botVars>>

\* line 187: the call returns and its result is appended
TcReturn ==
    /\ tc_pc = "wait"
    /\ \E out \in TranslatorOutputs :
          /\ tc_translated' = Append(tc_translated, out)
          /\ tc_resp' = Append(tc_resp, out)
    /\ tc_pc' = "loop"
    /\ UNCHANGED <<tc_text, tc_max, tc_chunks, tc_calls, tc_failures, tc_result,
                   splitVars, botVars>>

\* the failed call is swallowed and the loop goes on with an empty translation
TcRaise_Swallow ==
    /\ tc_pc = "wait"
    /\ tc_failures' = tc_failures + 1
    /\ tc_translated' = Append(tc_translated, <<>>)
    /\ tc_pc' = "loop"
    /\ UNCHANGED <<tc_text, tc_max, tc_chunks, tc_calls, tc_resp, tc_result,
                   splitVars, botVars>>

\* line 187: the call raises; nothing in translate_chunked catches it
TcRaise ==
    /\ tc_pc = "wait"
    /\ tc_failures' = tc_failures + 1
    /\ tc_pc' = "failed"
    /\ UNCHANGED <<tc_text, tc_max, tc_chunks, tc_translated, tc_calls, tc_resp,
                   tc_result, splitVars, botVars>>

\* line 188
TcJoin ==
    /\ tc_pc = "loop"
    /\ Len(tc_translated) = Len(tc_chunks)
    /\ tc_result' = <<JoinTranslated(tc_translated)>>
    /\ tc_pc' = "done"
    /\ UNCHANGED <<tc_text, tc_max, tc_chunks, tc_translated, tc_calls, tc_resp,
                   tc_failures, splitVars, botVars>>

NextTranslate == TcStart \/ TcCall \/ TcReturn \/ TcRaise \/ TcJoin

SpecTranslate == InitTranslate /\ [][NextTranslate]_vars

\* ------------------------------------------------------ bot: inputs
\* longest source PDF drawn, in pages
MaxPages == 2

Letters(n) == [i \in 1..n |-> "w"]

\* line 263
NO_TEXT_ON_PAGE ==
    <<"(", "N", "o", " ", "t", "e", "x", "t", " ", "f", "o", "u", "n", "d", " ",
      "o", "n", " ", "t", "h", "i", "s", " ", "p", "a", "g", "e", ")">>

\* line 349
NO_TEXT_FOUND ==
    <<"(", "N", "o", " ", "t", "e", "x", "t", " ", "f", "o", "u", "n", "d", ")">>

\* lines 267, 352, 378: the Arabic placeholder; "w" stands for an Arabic letter
NO_TRANSLATION ==
    <<"(">> \o Letters(4) \o <<" ">> \o Letters(6) \o <<" ">> \o Letters(3)
    \o <<" ">> \o Letters(5) \o <<")">>

\* a translation of one line, too long for a PDF page and for a text reply
LongLine == [i \in 1..(IMAGE_TEXT_LIMIT + 1) |-> "x"]

\* a translation of three lines, any two of them too long for one PDF page
ThreeLines ==
    LET half == [i \in 1..(PDF_MAX_CHARS \div 2) |-> "x"]
    IN  Join(<<half, half, half>>, <<"\n">>)

\* what the translation service may answer to the handlers' calls
ServiceOutputs == {<<>>, <<"x">>, LongLine, ThreeLines}

\* the source pages drawn: selectable text and what OCR reads off the raster
Page(k) ==
    CASE k = "text"  -> [embedded |-> <<"a", " ", "b", "\n">>, ocr |-> <<"b">>]
      [] k = "scan"  -> [embedded |-> <<" ">>, ocr |-> <<"a", "\n", "b">>]
      [] k = "blank" -> [embedded |-> <<>>, ocr |-> <<"\n">>]

PageKinds == {"text", "scan", "blank"}

PdfDocuments == UNION {[1..n -> PageKinds] : n \in 1..MaxPages}

PptFileNames ==
    { <<"a", ".", "p", "p", "t">>, <<"a", ".", "P", "P", "T", "X">>,
      <<"a", ".", "p", "P", "t", "x">>, <<"a", ".", "p", "d", "f">>,
      <<"p", "p", "t">>, <<"a", ".", "p", "p", "t", ".", "t", "x", "t">>,
      <<".", "p", "p", "t", "x", "x">>, <<>> }

\* message.document of the PPT bots: file_name is optional
PptDocuments ==
    {[has_name |-> FALSE, name |-> <<>>]}
    \cup {[has_name |-> TRUE, name |-> n] : n \in PptFileNames}

\* what OCR reads off the inbound image
ImageOcrTexts == {<<>>, <<" ", "\n">>, <<"a", " ", "b">>}

TextMessages == {<<>>, <<" ">>, <<"a">>, <<"a", "\n", "b">>}

Inputs(k) ==
    CASE k = "ppt"   -> PptDocuments
      [] k = "pdf"   -> PdfDocuments
      [] k = "image" -> ImageOcrTexts
      [] k = "text"  -> TextMessages

\* ----------------------------------------------------- bot: helpers
LowerChar(c) ==
    CASE c = "P" -> "p" [] c = "T" -> "t" [] c = "X" -> "x" [] OTHER -> c

Lower(s) == [i \in 1..Len(s) |-> LowerChar(s[i])]

EndsWith(s, suffix) ==
    /\ Len(s) >= Len(suffix)
    /\ SubSeq(s, Len(s) - Len(suffix) + 1, Len(s)) = suffix

\* src/index.js:24, src/indes.js:18: file_name.match(/\.(ppt|pptx)$/i)
MatchesPpt(name) ==
    \/ EndsWith(Lower(name), <<".", "p", "p", "t">>)
    \/ EndsWith(Lower(name), <<".", "p", "p", "t", "x">>)

\* lines 207-217: both texts trimmed, the non-empty ones joined, embedded first
ExtractText(page) ==
    Strip(Join(SelectSeq(<<Strip(page.embedded), Strip(page.ocr)>>,
                         LAMBDA t : t # <<>>),
               <<"\n">>))

\* the values translate_chunked(text) can return with the default chunk size
TranslateResults(text) ==
    LET t == Strip(text)
    IN  IF t = <<>> THEN {<<>>}
        ELSE LET chunks == MakeChunks(t, DEFAULT_MAX_CHUNK_CHARS)
             IN  {JoinTranslated(outs) : outs \in [1..Len(chunks) -> ServiceOutputs]}

\* translate_chunked(text) can raise only when it calls the translator
TranslateCanFail(text) == Strip(text) # <<>>

Entry(op, ok) == [op |-> op, ok |-> ok]

\* an awaited call inside the PPT handler's try block: a failure goes to catch
AwaitedStep(op, ok, next) ==
    /\ log' = Append(log, Entry(op, ok))
    /\ pc' = IF ok THEN next ELSE "catch"
    /\ thrown' = (thrown \/ ~ok)
    /\ UNCHANGED escaped

\* a call of a Python handler outside any try block: a failure leaves the handler
UnguardedStep(op, ok, next) ==
    /\ log' = Append(log, Entry(op, ok))
    /\ pc' = IF ok THEN next ELSE "done"
    /\ thrown' = (thrown \/ ~ok)
    /\ escaped' = (escaped \/ ~ok)

\* ------------------------------------------- bot: PPT document handler
\* src/index.js:22-26, src/indes.js:16-20
PptCheckName ==
    /\ kind = "ppt" /\ pc = "start"
    /\ IF ~input.has_name
       THEN \* undefined.match(...) throws a TypeError inside the try block
            /\ pc' = "catch"
            /\ thrown' = TRUE
            /\ UNCHANGED <<log, escaped>>
       ELSE IF ~MatchesPpt(input.name)
       THEN \* return ctx.reply(...): not awaited, a rejection passes the catch
            \E ok \in BOOLEAN :
               /\ log' = Append(log, Entry("reply:rejected", ok))
               /\ pc' = "done"
               /\ thrown' = ~ok
               /\ escaped' = ~ok
       ELSE /\ pc' = "converting"
            /\ UNCHANGED <<log, escaped, thrown>>
    /\ UNCHANGED <<reqVars, english, arabic, pdfVars, splitVars, tcVars>>

\* src/index.js:28, src/indes.js:22
PptReplyConverting ==
    /\ kind = "ppt" /\ pc = "converting"
    /\ \E ok \in BOOLEAN : AwaitedStep("reply:converting", ok, "getFile")
    /\ UNCHANGED <<reqVars, english, arabic, pdfVars, splitVars, tcVars>>

\* src/index.js:30, src/indes.js:24
PptGetFile ==
    /\ kind = "ppt" /\ pc = "getFile"
    /\ \E ok \in BOOLEAN : AwaitedStep("getFile", ok, "fetchFile")
    /\ UNCHANGED <<reqVars, english, arabic, pdfVars, splitVars, tcVars>>

\* src/index.js:33, src/indes.js:26
PptFetchFile ==
    /\ kind = "ppt" /\ pc = "fetchFile"
    /\ \E ok \in BOOLEAN : AwaitedStep("fetchFile", ok, "startTask")
    /\ UNCHANGED <<reqVars, english, arabic, pdfVars, splitVars, tcVars>>

\* src/index.js:36, src/indes.js:30
PptStartTask ==
    /\ kind = "ppt" /\ pc = "startTask"
    /\ \E ok \in BOOLEAN : AwaitedStep("startTask", ok, "upload")
    /\ UNCHANGED <<reqVars, english, arabic, pdfVars, splitVars, tcVars>>

\* src/index.js:43-47, src/indes.js:37-41
PptUpload ==
    /\ kind = "ppt" /\ pc = "upload"
    /\ \E ok \in BOOLEAN : AwaitedStep("upload", ok, "process")
    /\ UNCHANGED <<reqVars, english, arabic, pdfVars, splitVars, tcVars>>

\* the handler goes on to the result download although the process call failed
PptProcess_IgnoreFailure ==
    /\ kind = "ppt" /\ pc = "process"
    /\ \E ok \in BOOLEAN :
          /\ log' = Append(log, Entry("process", ok))
          /\ pc' = "download"
          /\ thrown' = (thrown \/ ~ok)
    /\ UNCHANGED <<reqVars, escaped, english, arabic, pdfVars, splitVars, tcVars>>

\* src/index.js:51-64, src/indes.js:45-61
PptProcess ==
    /\ kind = "ppt" /\ pc = "process"
    /\ \E ok \in BOOLEAN : AwaitedStep("process", ok, "download")
    /\ UNCHANGED <<reqVars, english, arabic, pdfVars, splitVars, tcVars>>

\* src/index.js:66-69, src/indes.js:63-66
PptDownload ==
    /\ kind = "ppt" /\ pc = "download"
    /\ \E ok \in BOOLEAN : AwaitedStep("download", ok, "replyDocument")
    /\ UNCHANGED <<reqVars, english, arabic, pdfVars, splitVars, tcVars>>

\* src/index.js:74, src/indes.js:72
PptReplyDocument ==
    /\ kind = "ppt" /\ pc = "replyDocument"
    /\ \E ok \in BOOLEAN : AwaitedStep("reply:document", ok, "replySuccess")
    /\ UNCHANGED <<reqVars, english, arabic, pdfVars, splitVars, tcVars>>

\* src/index.js:75, src/indes.js:73
PptReplySuccess ==
    /\ kind = "ppt" /\ pc = "replySuccess"
    /\ \E ok \in BOOLEAN : AwaitedStep("reply:success", ok, "done")
    /\ UNCHANGED <<reqVars, english, arabic, pdfVars, splitVars, tcVars>>

\* src/index.js:77-80, src/indes.js:75-78: ctx.reply is not awaited, so its
\* rejection is an unhandled rejection
PptCatch ==
    /\ kind = "ppt" /\ pc = "catch"
    /\ \E ok \in BOOLEAN :
          /\ log' = Append(log, Entry("reply:error", ok))
          /\ escaped' = (escaped \/ ~ok)
    /\ pc' = "done"
    /\ UNCHANGED <<reqVars, thrown, english, arabic, pdfVars, splitVars, tcVars>>

PptHandler ==
    \/ PptCheckName \/ PptReplyConverting \/ PptGetFile \/ PptFetchFile
    \/ PptStartTask \/ PptUpload \/ PptProcess \/ PptDownload
    \/ PptReplyDocument \/ PptReplySuccess \/ PptCatch

\* -------------------------------- bot: handle_pdf, build_translated_pdf
\* line 307
PdfReplyProcessing ==
    /\ kind = "pdf" /\ pc = "start"
    /\ \E ok \in BOOLEAN : UnguardedStep("reply:processing", ok, "get_file")
    /\ UNCHANGED <<reqVars, english, arabic, pdfVars, splitVars, tcVars>>

\* line 309
PdfGetFile ==
    /\ kind = "pdf" /\ pc = "get_file"
    /\ \E ok \in BOOLEAN : UnguardedStep("get_file", ok, "download")
    /\ UNCHANGED <<reqVars, english, arabic, pdfVars, splitVars, tcVars>>

\* lines 311-314
PdfDownload ==
    /\ kind = "pdf" /\ pc = "download"
    /\ \E ok \in BOOLEAN : UnguardedStep("download_to_drive", ok, "open")
    /\ UNCHANGED <<reqVars, english, arabic, pdfVars, splitVars, tcVars>>

\* build_translated_pdf raises at `at`: lines 316-318 take it to the except clause
BuildRaise(at) ==
    /\ pdf_failed_at' = at
    /\ thrown' = TRUE
    /\ pc' = "except"

\* lines 252-255
BuildOpen ==
    /\ kind = "pdf" /\ pc = "open"
    /\ \/ /\ pdf_i' = 1
          /\ pc' = "page"
          /\ UNCHANGED <<pdf_failed_at, thrown>>
       \/ /\ BuildRaise("open")
          /\ UNCHANGED pdf_i
    /\ UNCHANGED <<reqVars, log, escaped, english, arabic, pdf_out, pdf_chunks,
                   pdf_j, pdf_ks, pdf_saved, splitVars, tcVars>>

CopyOf(i) == [what |-> "copy", src |-> i, j |-> 0, total |-> 0]

TranslationOf(i, j, total) == [what |-> "translation", src |-> i, j |-> j, total |-> total]

\* the copy of the original page left out
BuildCopyPage_Skip ==
    /\ kind = "pdf" /\ pc = "page"
    /\ pdf_i <= Len(input)
    /\ pc' = "extract"
    /\ UNCHANGED <<reqVars, log, escaped, thrown, english, arabic, pdf_i, pdf_out,
                   pdf_chunks, pdf_j, pdf_ks, pdf_saved, pdf_failed_at,
                   splitVars, tcVars>>

\* lines 257-259: out.insert_pdf(src, from_page=i, to_page=i)
BuildCopyPage ==
    /\ kind = "pdf" /\ pc = "page"
    /\ pdf_i <= Len(input)
    /\ pdf_out' = Append(pdf_out, CopyOf(pdf_i))
    /\ pc' = "extract"
    /\ UNCHANGED <<reqVars, log, escaped, thrown, english, arabic, pdf_i,
                   pdf_chunks, pdf_j, pdf_ks, pdf_saved, pdf_failed_at,
                   splitVars, tcVars>>

\* lines 261-263
BuildExtract ==
    /\ kind = "pdf" /\ pc = "extract"
    /\ \/ /\ english' = (LET t == Strip(ExtractText(Page(input[pdf_i])))
                         IN  IF t = <<>> THEN NO_TEXT_ON_PAGE ELSE t)
          /\ pc' = "translate"
          /\ UNCHANGED <<pdf_failed_at, thrown>>
       \/ /\ BuildRaise("extract")
          /\ UNCHANGED english
    /\ UNCHANGED <<reqVars, log, escaped, arabic, pdf_i, pdf_out, pdf_chunks,
                   pdf_j, pdf_ks, pdf_saved, splitVars, tcVars>>

\* lines 265-267
BuildTranslate ==
    /\ kind = "pdf" /\ pc = "translate"
    /\ \/ /\ \E r \in TranslateResults(english) :
                arabic' = (IF Strip(r) = <<>> THEN NO_TRANSLATION ELSE Strip(r))
          /\ pc' = "paginate"
          /\ UNCHANGED <<pdf_failed_at, thrown>>
       \/ /\ TranslateCanFail(english)
          /\ BuildRaise("translate")
          /\ UNCHANGED arabic
    /\ UNCHANGED <<reqVars, log, escaped, english, pdf_i, pdf_out, pdf_chunks,
                   pdf_j, pdf_ks, pdf_saved, splitVars, tcVars>>

\* lines 269-270; pdf_ks logs how many strings split_for_pdf returned per page
BuildPaginate ==
    /\ kind = "pdf" /\ pc = "paginate"
    /\ pdf_chunks' = split_for_pdf(arabic, PDF_MAX_CHARS)
    /\ pdf_ks' = Append(pdf_ks, Len(split_for_pdf(arabic, PDF_MAX_CHARS)))
    /\ pdf_j' = 1
    /\ pc' = "new_page"
    /\ UNCHANGED <<reqVars, log, escaped, thrown, english, arabic, pdf_i, pdf_out,
                   pdf_saved, pdf_failed_at, splitVars, tcVars>>

\* lines 272-291: out.new_page, then the header and the shaped text are drawn
\* on it (either insert may raise, with the page already in out)
BuildNewPage ==
    /\ kind = "pdf" /\ pc = "new_page"
    /\ pdf_j <= Len(pdf_chunks)
    /\ pdf_out' = Append(pdf_out, TranslationOf(pdf_i, pdf_j, Len(pdf_chunks)))
    /\ \/ /\ pdf_j' = pdf_j + 1
          /\ UNCHANGED <<pc, pdf_failed_at, thrown>>
       \/ /\ BuildRaise("generate")
          /\ UNCHANGED pdf_j
    /\ UNCHANGED <<reqVars, log, escaped, english, arabic, pdf_i, pdf_chunks,
                   pdf_ks, pdf_saved, splitVars, tcVars>>

\* lines 272, 257: the chunks are used up, on to the next source page
BuildNextPage ==
    /\ kind = "pdf" /\ pc = "new_page"
    /\ pdf_j > Len(pdf_chunks)
    /\ pdf_i' = pdf_i + 1
    /\ pc' = "page"
    /\ UNCHANGED <<reqVars, log, escaped, thrown, english, arabic, pdf_out,
                   pdf_chunks, pdf_j, pdf_ks, pdf_saved, pdf_failed_at,
                   splitVars, tcVars>>

\* lines 293-295: out.save after the last page
BuildSave ==
    /\ kind = "pdf" /\ pc = "page"
    /\ pdf_i > Len(input)
    /\ \/ /\ pdf_saved' = TRUE
          /\ pc' = "reply_document"
          /\ UNCHANGED <<pdf_failed_at, thrown>>
       \/ /\ BuildRaise("save")
          /\ UNCHANGED pdf_saved
    /\ UNCHANGED <<reqVars, log, escaped, english, arabic, pdf_i, pdf_out,
                   pdf_chunks, pdf_j, pdf_ks, splitVars, tcVars>>

\* the except clause without its return: the handler goes on to reply_document
PdfExcept_NoReturn ==
    /\ kind = "pdf" /\ pc = "except"
    /\ \E ok \in BOOLEAN : UnguardedStep("reply:failed", ok, "reply_document")
    /\ UNCHANGED <<reqVars, english, arabic, pdfVars, splitVars, tcVars>>

\* lines 318-320
PdfExcept ==
    /\ kind = "pdf" /\ pc = "except"
    /\ \E ok \in BOOLEAN : UnguardedStep("reply:failed", ok, "done")
    /\ UNCHANGED <<reqVars, english, arabic, pdfVars, splitVars, tcVars>>

\* lines 322-323
PdfReplyDocument ==
    /\ kind = "pdf" /\ pc = "reply_document"
    /\ \E ok \in BOOLEAN : UnguardedStep("reply:document", ok, "done")
    /\ UNCHANGED <<reqVars, english, arabic, pdfVars, splitVars, tcVars>>

PdfHandler ==
    \/ PdfReplyProcessing \/ PdfGetFile \/ PdfDownload
    \/ BuildOpen \/ BuildCopyPage \/ BuildExtract \/ BuildTranslate
    \/ BuildPaginate \/ BuildNewPage \/ BuildNextPage \/ BuildSave
    \/ PdfExcept \/ PdfReplyDocument

\* -------------------------------------------------- bot: handle_image
\* line 327
ImgReplyProcessing ==
    /\ kind = "image" /\ pc = "start"
    /\ \E ok \in BOOLEAN : UnguardedStep("reply:processing", ok, "get_file")
    /\ UNCHANGED <<reqVars, english, arabic, pdfVars, splitVars, tcVars>>

\* lines 330-339
ImgGetFile ==
    /\ kind = "image" /\ pc = "get_file"
    /\ \E ok \in BOOLEAN : UnguardedStep("get_file", ok, "download")
    /\ UNCHANGED <<reqVars, english, arabic, pdfVars, splitVars, tcVars>>

\* lines 341-343
ImgDownload ==
    /\ kind = "image" /\ pc = "download"
    /\ \E ok \in BOOLEAN : UnguardedStep("download_to_drive", ok, "ocr")
    /\ UNCHANGED <<reqVars, english, arabic, pdfVars, splitVars, tcVars>>

\* lines 346-349, inside the try of lines 355-359
ImgOcr ==
    /\ kind = "image" /\ pc = "ocr"
    /\ \/ /\ english' = (IF Strip(input) = <<>> THEN NO_TEXT_FOUND ELSE Strip(input))
          /\ pc' = "translate"
          /\ UNCHANGED thrown
       \/ /\ thrown' = TRUE
          /\ pc' = "except"
          /\ UNCHANGED english
    /\ UNCHANGED <<reqVars, log, escaped, arabic, pdfVars, splitVars, tcVars>>

\* lines 350-353, inside the try of lines 355-359
ImgTranslate ==
    /\ kind = "image" /\ pc = "translate"
    /\ \/ /\ \E r \in TranslateResults(english) :
                arabic' = (IF Strip(r) = <<>> THEN NO_TRANSLATION ELSE Strip(r))
          /\ pc' = "send"
          /\ UNCHANGED thrown
       \/ /\ TranslateCanFail(english)
          /\ thrown' = TRUE
          /\ pc' = "except"
          /\ UNCHANGED arabic
    /\ UNCHANGED <<reqVars, log, escaped, english, pdfVars, splitVars, tcVars>>

\* lines 357-359
ImgExcept ==
    /\ kind = "image" /\ pc = "except"
    /\ \E ok \in BOOLEAN : UnguardedStep("reply:failed", ok, "done")
    /\ UNCHANGED <<reqVars, english, arabic, pdfVars, splitVars, tcVars>>

\* lines 362-369: a text reply, or translation_ar.txt when the text is too long
ImgSend ==
    /\ kind = "image" /\ pc = "send"
    /\ \E ok \in BOOLEAN :
          IF Len(arabic) <= IMAGE_TEXT_LIMIT
          THEN UnguardedStep("reply:text", ok, "done")
          ELSE UnguardedStep("reply:document", ok, "done")
    /\ UNCHANGED <<reqVars, english, arabic, pdfVars, splitVars, tcVars>>

ImageHandler ==
    \/ ImgReplyProcessing \/ ImgGetFile \/ ImgDownload \/ ImgOcr
    \/ ImgTranslate \/ ImgExcept \/ ImgSend

\* --------------------------------------------------- bot: handle_text
\* lines 374-376
TextStart ==
    /\ kind = "text" /\ pc = "start"
    /\ IF Strip(input) = <<>>
       THEN pc' = "done" /\ UNCHANGED english
       ELSE pc' = "translate" /\ english' = Strip(input)
    /\ UNCHANGED <<reqVars, log, escaped, thrown, arabic, pdfVars, splitVars, tcVars>>

\* line 377: no try block around translate_chunked
TextTranslate ==
    /\ kind = "text" /\ pc = "translate"
    /\ \/ /\ \E r \in TranslateResults(english) : arabic' = r
          /\ pc' = "reply"
          /\ UNCHANGED <<thrown, escaped>>
       \/ /\ TranslateCanFail(english)
          /\ thrown' = TRUE
          /\ escaped' = TRUE
          /\ pc' = "done"
          /\ UNCHANGED arabic
    /\ UNCHANGED <<reqVars, log, english, pdfVars, splitVars, tcVars>>

\* line 378: reply_text(arabic or placeholder)
TextReply ==
    /\ kind = "text" /\ pc = "reply"
    /\ \E ok \in BOOLEAN : UnguardedStep("reply:text", ok, "done")
    /\ UNCHANGED <<reqVars, english, arabic, pdfVars, splitVars, tcVars>>

TextHandler == TextStart \/ TextTranslate \/ TextReply

\* ------------------------------------------------ specification: bot
Kinds == {"ppt", "pdf", "image", "text"}

Variants(k) == IF k = "ppt" THEN {"polling", "webhook"} ELSE {"python"}

Init ==
    /\ kind \in Kinds
    /\ variant \in Variants(kind)
    /\ input \in Inputs(kind)
    /\ pc = "start"
    /\ log = <<>> /\ escaped = FALSE /\ thrown = FALSE
    /\ english = <<>> /\ arabic = <<>>
    /\ pdf_i = 0 /\ pdf_out = <<>> /\ pdf_chunks = <<>> /\ pdf_j = 0
    /\ pdf_ks = <<>> /\ pdf_saved = FALSE /\ pdf_failed_at = "none"
    /\ SplitIdle
    /\ TcIdle

Next == PptHandler \/ PdfHandler \/ ImageHandler \/ TextHandler

Spec == Init /\ [][Next]_vars

\* ------------------------------------------------- claims: paginator
RemoveNewlines(s) == SelectSeq(s, LAMBDA c : c # "\n")

RemoveSpace(s) == SelectSeq(s, LAMBDA c : ~IsSpace(c))

\* C6 as stated: split_for_pdf returns at least one page, and the pages
\* concatenated, the newline separators ignored, are the (trimmed) input with
\* no character lost or duplicated.
C6_PagesReconstructInput ==
    sp_pc = "done" =>
        /\ Len(sp_pages) >= 1
        /\ RemoveNewlines(Concat(sp_pages)) = RemoveNewlines(Strip(sp_text))

\* C6 amended: split_for_pdf returns at least one page, and the pages
\* concatenated hold the input's non-whitespace characters, each once and in
\* order; only whitespace (the line separators, and the blanks trimmed off the
\* input and off each page) is dropped.
C6_PagesKeepNonSpace ==
    sp_pc = "done" =>
        /\ Len(sp_pages) >= 1
        /\ RemoveSpace(Concat(sp_pages)) = RemoveSpace(sp_text)

\* several pages were returned and a blank inside the input was dropped
C6_Witness ==
    /\ sp_pc = "done"
    /\ Len(sp_pages) >= 2
    /\ RemoveNewlines(Concat(sp_pages)) # RemoveNewlines(Strip(sp_text))

\* C7: every page split_for_pdf returns is within capacity, also when a single
\* line is longer than the capacity.
C7_PagesWithinCapacity ==
    sp_pc = "done" => \A i \in 1..Len(sp_pages) : Len(sp_pages[i]) <= sp_max

\* ------------------------------------------------ claims: translator
CeilDiv(a, b) == (a + b - 1) \div b

HasNewline(s) == \E i \in 1..Len(s) : s[i] = "\n"

\* C4: every string passed to the translator has length in 1..max_chunk_chars,
\* packed or hard-sliced.
C4_ChunkLengthBounded ==
    \A i \in 1..Len(tc_calls) :
        Len(tc_calls[i]) >= 1 /\ Len(tc_calls[i]) <= tc_max

\* a packed chunk (two paragraphs and their separator) fills the capacity and
\* another chunk follows it
C4_Witness ==
    /\ tc_pc = "done"
    /\ Len(tc_calls) >= 2
    /\ HasNewline(tc_calls[1])
    /\ Len(tc_calls[1]) = tc_max

\* C5: a finished translate_chunked made no translator call and returned the
\* empty string for an empty or whitespace-only input, exactly one call for a
\* (non-blank) input shorter than max_chunk_chars, and ceil(len/max) calls for a
\* trimmed input that is one paragraph of length len > max_chunk_chars.
C5_CallCount ==
    tc_pc = "done" =>
        LET t == Strip(tc_text)
        IN  /\ t = <<>> => Len(tc_calls) = 0 /\ tc_result = << <<>> >>
            /\ (t # <<>> /\ Len(tc_text) < tc_max) => Len(tc_calls) = 1
            /\ (~HasNewline(t) /\ Len(t) > tc_max)
                  => Len(tc_calls) = CeilDiv(Len(t), tc_max)

\* one oversized paragraph whose last slice is shorter than the others
C5_Witness ==
    /\ tc_pc = "done"
    /\ ~HasNewline(Strip(tc_text))
    /\ Len(Strip(tc_text)) > tc_max
    /\ Len(Strip(tc_text)) % tc_max # 0
    /\ Len(tc_calls) >= 2

\* C9: the chunks are translated one after another in chunk order, a call is
\* issued only when every earlier call has returned, the result is the
\* translations joined in that order, and after a failed call no later chunk
\* is translated and there is no result.
C9_SequentialInOrder ==
    /\ Len(tc_calls) <= Len(tc_chunks)
    /\ tc_calls = SubSeq(tc_chunks, 1, Len(tc_calls))
    /\ Len(tc_calls) = Len(tc_resp) + tc_failures + (IF tc_pc = "wait" THEN 1 ELSE 0)
    /\ tc_failures >= 1 => tc_failures = 1 /\ tc_pc = "failed" /\ tc_result = <<>>
    /\ (tc_pc = "done" /\ Strip(tc_text) # <<>>) =>
          /\ Len(tc_resp) = Len(tc_chunks)
          /\ tc_result = <<Strip(Join(tc_resp, <<"\n", "\n">>))>>

\* the second of three chunks failed after the first was translated
C9_Witness ==
    /\ tc_pc = "failed"
    /\ Len(tc_chunks) >= 3
    /\ Len(tc_resp) = 1
    /\ Len(tc_calls) = 2

\* ------------------------------------------------------ claims: bot
Ops(entries) == {entries[n].op : n \in 1..Len(entries)}

Delivered(op) == \E n \in 1..Len(log) : log[n].op = op /\ log[n].ok

RECURSIVE Layout(_, _)
\* source page i copied, then its ks[i] translation pages, for i, i+1, ...
Layout(ks, i) ==
    IF i > Len(ks) THEN <<>>
    ELSE <<CopyOf(i)>> \o [j \in 1..ks[i] |-> TranslationOf(i, j, ks[i])]
         \o Layout(ks, i + 1)

\* C1: once build_translated_pdf has saved the output of an N-page source, the
\* output is, for each source page in order, its copy followed by exactly k_i
\* translation pages, k_i >= 1 being the number of strings split_for_pdf
\* returned for the page's translated text.
C1_OutputLayout ==
    (kind = "pdf" /\ pdf_saved) =>
        /\ Len(pdf_ks) = Len(input)
        /\ \A i \in 1..Len(pdf_ks) : pdf_ks[i] >= 1
        /\ pdf_out = Layout(pdf_ks, 1)

\* a saved two-page output: a page without text (placeholder, one translation
\* page) and a page whose translation was split into three
C1_Witness ==
    /\ kind = "pdf" /\ pdf_saved
    /\ Len(input) = 2
    /\ input[1] = "blank"
    /\ pdf_ks = <<1, 3>>

\* C2: when extraction, translation or page generation fails on a source page,
\* the build stops there (no later page is processed, nothing is retried), the
\* output is never saved, handle_pdf issues the "Failed to process PDF" text
\* reply and never a document reply.
C2_FailedBuildIsDiscarded ==
    (kind = "pdf" /\ pdf_failed_at \in {"extract", "translate", "generate"}) =>
        /\ pc \in {"except", "done"}
        /\ ~pdf_saved
        /\ "reply:document" \notin Ops(log)
        /\ pc = "done" => "reply:failed" \in Ops(log)

\* the translation of the second page failed after the first page was
\* processed, and the failure reply went out
C2_Witness ==
    /\ kind = "pdf" /\ pc = "done"
    /\ pdf_failed_at = "translate"
    /\ pdf_i = 2
    /\ Delivered("reply:failed")

\* the notices a handler sends besides its result
NoticeOps ==
    {"reply:processing", "reply:converting", "reply:rejected", "reply:success",
     "reply:error", "reply:failed"}

NoticesDelivered == \A n \in 1..Len(log) : log[n].op \in NoticeOps => log[n].ok

\* C3: in every handler a failure of any step is caught inside the handler and
\* answered with a plain-text error message, and no result document or
\* translated text is sent for the failed request. (Stated for the requests
\* whose notices all reach the user: a step other than a notice failed.)
C3_FailuresCaughtAndReported ==
    (thrown /\ NoticesDelivered) =>
        /\ ~escaped
        /\ pc = "done" =>
              /\ Delivered("reply:error") \/ Delivered("reply:failed")
              /\ ~Delivered("reply:document")
              /\ ~Delivered("reply:text")

PptAccepted == input.has_name /\ MatchesPpt(input.name)

PptRemoteOps == {"getFile", "fetchFile", "startTask", "upload", "process", "download"}

\* C8: a document whose name does not end in .ppt or .pptx, or that has no
\* name, is answered with the rejection reason, and no file download and no
\* conversion call is made for it. (Stated for the requests whose notices all
\* reach the user.)
C8_NonPptRejected ==
    (kind = "ppt" /\ pc = "done" /\ ~PptAccepted /\ NoticesDelivered) =>
        /\ "reply:rejected" \in Ops(log)
        /\ Ops(log) \cap PptRemoteOps = {}

\* the remote steps of an accepted conversion, in the order of the code
PptStepOrder ==
    <<"getFile", "fetchFile", "startTask", "upload", "process", "download",
      "reply:document">>

PptStepsTaken ==
    SelectSeq(log, LAMBDA e : e.op \in PptRemoteOps \cup {"reply:document"})

\* C10: for an accepted document the steps download inbound file, start task,
\* upload, process, download result, reply with document are issued in that
\* order, each at most once and only after the previous one succeeded; after a
\* failed step none of the later steps is issued and no document is sent.
C10_StepsInFixedOrder ==
    (kind = "ppt" /\ PptAccepted) =>
        LET taken == PptStepsTaken
        IN  /\ Len(taken) <= Len(PptStepOrder)
            /\ \A n \in 1..Len(taken) : taken[n].op = PptStepOrder[n]
            /\ \A n \in 1..(Len(taken) - 1) : taken[n].ok
            /\ (\E n \in 1..Len(taken) : ~taken[n].ok) => ~Delivered("reply:document")

\* the process call failed: upload was the last step before it, the result
\* download and the document reply never happened
C10_Witness ==
    /\ kind = "ppt" /\ pc = "done"
    /\ Len(PptStepsTaken) = 5
    /\ ~PptStepsTaken[5].ok
    /\ Delivered("reply:error")

====
